---- MODULE Spec2Model ----
(***************************************************************************)
(* RoRamDirectory (src/src/directory/roram_directory.rs): a read-only      *)
(* Directory that keeps file contents in a HashMap behind one RwLock,      *)
(* reads missing paths lazily from disk, takes advisory file locks and     *)
(* forwards watch registrations to a FileWatcher on the meta file.         *)
(***************************************************************************)
EXTENDS Integers, Sequences, FiniteSets, TLC

\* ---------------------------------------------------------------- bounds
\* Longest file content, in bytes.
MaxLen == 1
\* Threads that call the directory.
NumThreads == 2
\* Callbacks that may be registered with watch.
NumCallbacks == 2
\* RoRamDirectory values: the one new returned and its clones.
NumHandles == 2

\* ----------------------------------------------------------------- paths
META_FILEPATH == "meta.json"
META_LOCK == ".tantivy-meta.lock"
INDEX_WRITER_LOCK == ".tantivy-writer.lock"
DataPaths == {META_FILEPATH, "test.txt"}
LockPaths == {META_LOCK, INDEX_WRITER_LOCK}
Paths == DataPaths \cup LockPaths

\* Two byte values are enough to tell one content from another.
Bytes == {0, 1}
Contents == UNION {[1..n -> Bytes] : n \in 0..MaxLen}

\* ------------------------------------------------------------------ disk
\* One entry of the root directory as the OS presents it.
\*   absent : no such entry          dir    : a non-regular entry
\*   file   : a readable regular file
\*   noperm : a regular file that open(2) refuses (EACCES)
Absent == [kind |-> "absent", bytes |-> <<>>]
Dir == [kind |-> "dir", bytes |-> <<>>]
NoPerm == [kind |-> "noperm", bytes |-> <<>>]
RegularFile(b) == [kind |-> "file", bytes |-> b]
DiskEntries == {Absent, Dir, NoPerm} \cup {RegularFile(b) : b \in Contents}

\* ----------------------------------------------------------- result values
NoBytes == <<>>
OkBytes(b) == [kind |-> "Ok", err |-> "none", io |-> "none", bytes |-> b, flag |-> FALSE]
OkBool(v) == [kind |-> "Ok", err |-> "none", io |-> "none", bytes |-> NoBytes, flag |-> v]
OkUnit == [kind |-> "Ok", err |-> "none", io |-> "none", bytes |-> NoBytes, flag |-> FALSE]
ErrResult(e, io) == [kind |-> "Err", err |-> e, io |-> io, bytes |-> NoBytes, flag |-> FALSE]
PanicResult == [kind |-> "Panic", err |-> "none", io |-> "none", bytes |-> NoBytes, flag |-> FALSE]
NoResult == [kind |-> "None", err |-> "none", io |-> "none", bytes |-> NoBytes, flag |-> FALSE]

\* OpenReadError::FileDoesNotExist(path)
FileDoesNotExist == ErrResult("FileDoesNotExist", "none")
\* OpenReadError::wrap_io_error(io_error, path): the IoFailure(path, cause) of
\* the error taxonomy, which wraps the OS error whatever its kind.
OpenReadError_wrap_io_error(io_error) == ErrResult("IoError", io_error)

\* ------------------------------------------------------------- std::fs
\* File::open(path) for reading: the io::ErrorKind, or "none" when it opens
\* (a directory opens, and fails at the first read).
File_open(e) ==
  CASE e.kind = "absent" -> "NotFound"
    [] e.kind = "noperm" -> "PermissionDenied"
    [] OTHER -> "none"

\* file.read_to_end(&mut buf) on an opened entry.
read_to_end(e) == IF e.kind = "dir" THEN "IsADirectory" ELSE "none"

\* fn open_file(path) -> Result<FileSlice, io::Error>
open_file(e) ==
  IF File_open(e) # "none" THEN ErrResult("io", File_open(e))
  ELSE IF read_to_end(e) # "none" THEN ErrResult("io", read_to_end(e))
  ELSE OkBytes(e.bytes)

\* entry.file_type()?.is_file()
is_file(e) == e.kind \in {"file", "noperm"}

\* -------------------------------------------------------- HashMap helpers
EmptyMap == [p \in {} |-> NoBytes]
contains_key(m, p) == p \in DOMAIN m
insert(m, p, b) == [q \in DOMAIN m \cup {p} |-> IF q = p THEN b ELSE m[q]]
remove(m, p) == [q \in DOMAIN m \ {p} |-> m[q]]

VARIABLES
  phase,      \* "init" | "ready" | "failed": RoRamDirectory::new not run / Ok / Err
  disk,       \* the root directory on disk: Paths -> DiskEntries
  files,      \* RoRamDirectoryInner.files: the HashMap, a function on its keys
  op, arg, ret,   \* the last Directory call: its name, its path and what it returned
  lpc, lfile, lblocking, lret, sysErr,  \* acquire_lock, per thread
  flock,      \* the OS lock table: lock file -> owning thread or 0
  callbacks,  \* FileWatcher registry: callbacks whose WatchHandle is live
  dirty,      \* the watcher has a change of its target to dispatch
  round,      \* callbacks still to be invoked in the current dispatch
  tick,       \* per callback: flips at each invocation
  owed,       \* callbacks registered when the meta file last changed, not invoked since
  tpc,        \* per thread: where its Directory call is ("idle", "want", "in", ...)
  top,        \* per thread: the Directory call it is making
  tret,       \* per thread: what its call returns
  rw,         \* the RwLock of RoRamDirectory.inner: its writer and its readers
  loaders,    \* threads whose current call has read the file from disk
  files0,     \* the cache map before the concurrent calls started
  arc,        \* per RoRamDirectory value: the allocation its Arc points to
  heap        \* per allocation: the files map of the RoRamDirectoryInner in it

cacheVars == <<phase, disk, files, op, arg, ret>>
lockVars == <<lpc, lfile, lblocking, lret, sysErr, flock>>
watchVars == <<callbacks, dirty, round, tick, owed>>
raceVars == <<tpc, top, tret, rw, loaders, files0>>
cloneVars == <<arc, heap>>
vars == <<phase, disk, files, op, arg, ret, lpc, lfile, lblocking, lret, sysErr,
          flock, callbacks, dirty, round, tick, owed, tpc, top, tret, rw,
          loaders, files0, arc, heap>>

Threads == 1..NumThreads
Callbacks == 1..NumCallbacks
NoOwner == 0
\* The values of RoRamDirectory (the first one and its clones) and the
\* allocations an Arc can point to; NoAlloc is a value that was dropped.
Handles == 1..NumHandles
Allocs == 1..NumHandles
NoAlloc == 0
\* The RwLock around RoRamDirectoryInner with no guard alive.
RwFree == [writer |-> NoOwner, readers |-> {}]

\* ------------------------------------------------- RoRamDirectoryInner
\* Mutant: the scan keeps the key and loses the content.
preload_empty(d) == [p \in {q \in Paths : is_file(d[q])} |-> NoBytes]
\* RoRamDirectoryInner::new: the files of the preloaded map, or the error of
\* the first regular entry that cannot be read.
preload(d) == [p \in {q \in Paths : is_file(d[q])} |-> d[p].bytes]
new_error(d) ==
  LET bad == {p \in Paths : is_file(d[p]) /\ open_file(d[p]).kind = "Err"}
  IN IF bad = {} THEN "none" ELSE open_file(d[CHOOSE p \in bad : TRUE]).io

\* Mutant: a failed read leaves what was read so far in the map.
inner_open_read_partial(m, d, p) ==
  IF contains_key(m, p) THEN <<OkBytes(m[p]), m>>
  ELSE LET r == open_file(d[p])
       IN IF r.kind = "Err"
          THEN <<OpenReadError_wrap_io_error(r.io), insert(m, p, NoBytes)>>
          ELSE <<r, insert(m, p, r.bytes)>>
\* Mutant: a cached path is read again from disk when the file can be read.
inner_open_read_reload(m, d, p) ==
  LET r == open_file(d[p])
  IN IF r.kind = "Ok" THEN <<r, insert(m, p, r.bytes)>>
     ELSE IF contains_key(m, p) THEN <<OkBytes(m[p]), m>>
     ELSE <<OpenReadError_wrap_io_error(r.io), m>>
\* RoRamDirectoryInner::open_read: <<result, files afterwards>>
inner_open_read(m, d, p) ==
  IF contains_key(m, p) THEN <<OkBytes(m[p]), m>>
  ELSE LET r == open_file(d[p])
       IN IF r.kind = "Err" THEN <<OpenReadError_wrap_io_error(r.io), m>>
          ELSE <<r, insert(m, p, r.bytes)>>

\* Mutant: exists asks the disk instead of the map.
inner_exists_on_disk(m, p) == disk[p].kind = "file"
\* RoRamDirectoryInner::exists
inner_exists(m, p) == contains_key(m, p)

\* Mutant: delete clears the whole map.
inner_delete_all(m, p) == EmptyMap
\* Mutant: delete leaves the entry where it is.
inner_delete_kept(m, p) == m
\* RoRamDirectoryInner::delete
inner_delete(m, p) == remove(m, p)

\* Mutant: delete removes the file under the root as well.
disk_after_delete_unlink(d, p) == [d EXCEPT ![p] = Absent]
\* RoRamDirectory::delete touches no file: the disk after it.
disk_after_delete(d, p) == d

\* Mutant: atomic_read answers from the cache when the path is cached.
atomic_read_cached(d, p) ==
  IF contains_key(files, p) THEN OkBytes(files[p])
  ELSE IF File_open(d[p]) = "none" /\ read_to_end(d[p]) = "none" THEN OkBytes(d[p].bytes)
  ELSE FileDoesNotExist
\* RoRamDirectory::atomic_read
atomic_read(d, p) ==
  IF File_open(d[p]) = "none"
  THEN IF read_to_end(d[p]) # "none"
       THEN OpenReadError_wrap_io_error(read_to_end(d[p]))
       ELSE OkBytes(d[p].bytes)
  ELSE IF File_open(d[p]) = "NotFound" THEN FileDoesNotExist
       ELSE OpenReadError_wrap_io_error(File_open(d[p]))

\* ------------------------------------------------------------- actions
Call(o, p, r) == op' = o /\ arg' = p /\ ret' = r

\* RoRamDirectory::new(dir)
New ==
  /\ phase # "ready"
  /\ \E readdir_ok \in BOOLEAN :
       IF ~readdir_ok
       THEN /\ phase' = "failed" /\ files' = EmptyMap
            /\ Call("new", META_FILEPATH, ErrResult("io", "Other"))
       ELSE IF new_error(disk) # "none"
       THEN /\ phase' = "failed" /\ files' = EmptyMap
            /\ Call("new", META_FILEPATH, ErrResult("io", new_error(disk)))
       ELSE /\ phase' = "ready" /\ files' = preload(disk)
            /\ Call("new", META_FILEPATH, OkUnit)
  /\ UNCHANGED <<raceVars, cloneVars, disk, lockVars, watchVars>>

\* Another process changes an entry of the root directory.
EnvSet(p, e) ==
  /\ phase = "ready"
  /\ p \in DataPaths /\ e \in DiskEntries /\ e # disk[p]
  /\ disk' = [disk EXCEPT ![p] = e]
  /\ Call("env", p, NoResult)
  /\ UNCHANGED <<raceVars, cloneVars, phase, files, lockVars, watchVars>>

OpenRead(p) ==
  /\ phase = "ready"
  /\ files' = inner_open_read(files, disk, p)[2]
  /\ Call("open_read", p, inner_open_read(files, disk, p)[1])
  /\ UNCHANGED <<raceVars, cloneVars, phase, disk, lockVars, watchVars>>

GetFileHandle(p) ==
  /\ phase = "ready"
  /\ files' = inner_open_read(files, disk, p)[2]
  /\ Call("get_file_handle", p, inner_open_read(files, disk, p)[1])
  /\ UNCHANGED <<raceVars, cloneVars, phase, disk, lockVars, watchVars>>

Delete(p) ==
  /\ phase = "ready"
  /\ files' = inner_delete(files, p)
  /\ disk' = disk_after_delete(disk, p)
  /\ Call("delete", p, OkUnit)
  /\ UNCHANGED <<raceVars, cloneVars, phase, lockVars, watchVars>>

Exists(p) ==
  /\ phase = "ready"
  /\ Call("exists", p, OkBool(inner_exists(files, p)))
  /\ UNCHANGED <<raceVars, cloneVars, phase, disk, files, lockVars, watchVars>>

\* open_write: unimplemented!() panics
OpenWrite(p) ==
  /\ phase = "ready"
  /\ Call("open_write", p, PanicResult)
  /\ UNCHANGED <<raceVars, cloneVars, phase, disk, files, lockVars, watchVars>>

\* Mutant: atomic_read stores the bytes it read in the cache.
files_after_atomic_read_refreshed(m, d, p) ==
  IF atomic_read(d, p).kind = "Ok" THEN insert(m, p, atomic_read(d, p).bytes) ELSE m
\* RoRamDirectory::atomic_read takes the read guard for root_path only: the
\* map after it.
files_after_atomic_read(m, d, p) == m

AtomicRead(p) ==
  /\ phase = "ready"
  /\ files' = files_after_atomic_read(files, disk, p)
  /\ Call("atomic_read", p, atomic_read(disk, p))
  /\ UNCHANGED <<raceVars, cloneVars, phase, disk, lockVars, watchVars>>

\* atomic_write: unimplemented!("RoRamDirectory is read-only") panics
AtomicWrite(p, data) ==
  /\ phase = "ready"
  /\ data \in Contents
  /\ Call("atomic_write", p, PanicResult)
  /\ UNCHANGED <<raceVars, cloneVars, phase, disk, files, lockVars, watchVars>>

SyncDirectory ==
  /\ phase = "ready"
  /\ Call("sync_directory", META_FILEPATH, OkUnit)
  /\ UNCHANGED <<raceVars, cloneVars, phase, disk, files, lockVars, watchVars>>

\* ------------------------------------------------------ specification
InitBase ==
  /\ op = "none" /\ arg = META_FILEPATH /\ ret = NoResult
  /\ lpc = [t \in Threads |-> "idle"]
  /\ lfile = [t \in Threads |-> META_LOCK]
  /\ lblocking = [t \in Threads |-> FALSE]
  /\ lret = [t \in Threads |-> "none"]
  /\ sysErr = [t \in Threads |-> "none"]
  /\ flock = [f \in LockPaths |-> NoOwner]
  /\ callbacks = {} /\ dirty = FALSE /\ round = {}
  /\ tick = [c \in Callbacks |-> FALSE]
  /\ owed = {}

\* No thread is inside a call.
RaceIdle ==
  /\ tpc = [t \in Threads |-> "idle"]
  /\ top = [t \in Threads |-> "none"]
  /\ tret = [t \in Threads |-> NoResult]
  /\ rw = RwFree
  /\ loaders = {}
  /\ files0 = EmptyMap

\* The specifications with one RoRamDirectory value keep its map in files.
CloneIdle ==
  /\ arc = [h \in Handles |-> NoAlloc]
  /\ heap = [a \in Allocs |-> EmptyMap]

InitIdle == InitBase /\ RaceIdle /\ CloneIdle

Init ==
  /\ phase = "init"
  /\ disk \in {d \in [Paths -> DiskEntries] : \A p \in LockPaths : d[p] = Absent}
  /\ files = EmptyMap
  /\ InitIdle

Next ==
  \/ New
  \/ \E p \in DataPaths, e \in DiskEntries : EnvSet(p, e)
  \/ \E p \in Paths : OpenRead(p)
  \/ \E p \in Paths : GetFileHandle(p)
  \/ \E p \in Paths : Delete(p)
  \/ \E p \in Paths : Exists(p)
  \/ \E p \in Paths : OpenWrite(p)
  \/ \E p \in Paths : AtomicRead(p)
  \/ \E p \in Paths, data \in Contents : AtomicWrite(p, data)
  \/ SyncDirectory

Spec == Init /\ [][Next]_vars
\* -------------------------------------------------------- acquire_lock
\* OpenOptions::new().write(true).create(true).truncate(false).open(path):
\* the io::ErrorKind, or "none" when the file opens (created when absent).
open_for_lock(e) ==
  CASE e.kind = "dir" -> "IsADirectory"
    [] e.kind = "noperm" -> "PermissionDenied"
    [] OTHER -> "none"
\* Mutant: the open truncates (truncate(true)).
created_truncated(e) == RegularFile(NoBytes)
\* The entry after that open: an absent file is created empty, an existing
\* one is not truncated.
created(e) == IF e.kind = "absent" THEN RegularFile(NoBytes) ELSE e

\* file.try_lock_exclusive(): the error of flock(LOCK_EX | LOCK_NB) given the
\* owner of the lock and whether the call itself fails (ENOLCK, EINTR, ...).
try_lock_exclusive(owner, fault) ==
  IF fault THEN "Other" ELSE IF owner # NoOwner THEN "WouldBlock" ELSE "none"

\* Mutant: the error of the lock step is dropped and a handle returned.
lock_result_unchecked(blocking, errno) == "Ok"
\* Mutant: the blocking branch reports a failure as LockBusy too.
lock_result_always_busy(blocking, errno) ==
  IF errno = "none" THEN "Ok" ELSE "LockBusy"
\* What acquire_lock returns after the lock step: the blocking branch wraps
\* the error, the non-blocking branch maps every error to LockBusy.
lock_result(blocking, errno) ==
  IF errno = "none" THEN "Ok"
  ELSE IF blocking THEN "IoError" ELSE "LockBusy"

\* acquire_lock, first half: join the path and open the lock file.
OpenLockFile(t, f, blocking) ==
  /\ phase = "ready" /\ lpc[t] = "idle"
  /\ lfile' = [lfile EXCEPT ![t] = f]
  /\ lblocking' = [lblocking EXCEPT ![t] = blocking]
  /\ sysErr' = [sysErr EXCEPT ![t] = open_for_lock(disk[f])]
  /\ IF open_for_lock(disk[f]) = "none"
     THEN /\ disk' = [disk EXCEPT ![f] = created(disk[f])]
          /\ lpc' = [lpc EXCEPT ![t] = "opened"]
          /\ lret' = [lret EXCEPT ![t] = "none"]
     ELSE /\ disk' = disk
          /\ lpc' = lpc
          /\ lret' = [lret EXCEPT ![t] = "IoError"]
  /\ UNCHANGED <<cloneVars, phase, files, op, arg, ret, flock, watchVars>>

AcquireOpen(t, f, blocking) ==
  /\ OpenLockFile(t, f, blocking)
  /\ UNCHANGED raceVars

\* The lock step returns errno to thread t, which leaves acquire_lock.
LockReturns(t, errno) ==
  LET r == lock_result(lblocking[t], errno)
  IN /\ sysErr' = [sysErr EXCEPT ![t] = errno]
     /\ lret' = [lret EXCEPT ![t] = r]
     /\ lpc' = [lpc EXCEPT ![t] = IF r = "Ok" THEN "held" ELSE "idle"]
     /\ flock' = IF errno = "none" THEN [flock EXCEPT ![lfile[t]] = t] ELSE flock
     /\ UNCHANGED <<raceVars, cloneVars, phase, disk, files, op, arg, ret, lfile, lblocking, watchVars>>

\* acquire_lock, non-blocking: file.try_lock_exclusive()
TryLockExclusive(t, fault) ==
  /\ lpc[t] = "opened" /\ ~lblocking[t]
  /\ LockReturns(t, try_lock_exclusive(flock[lfile[t]], fault))

\* acquire_lock, blocking: file.lock_exclusive() returns once the lock is free
LockExclusiveOk(t) ==
  /\ lpc[t] = "opened" /\ lblocking[t]
  /\ flock[lfile[t]] = NoOwner
  /\ LockReturns(t, "none")

\* ... or fails while it waits (EINTR, ENOLCK).
LockExclusiveErr(t) ==
  /\ lpc[t] = "opened" /\ lblocking[t]
  /\ LockReturns(t, "Interrupted")

\* Mutant: the file of the handle is never closed, the lock stays.
flock_after_drop_leaked(fl, f, t) == fl
\* Closing the file of thread t releases the lock on f that this file holds.
flock_after_drop(fl, f, t) ==
  IF fl[f] = t THEN [fl EXCEPT ![f] = NoOwner] ELSE fl

\* The DirectoryLock is dropped: ReleaseLockFile closes the file, which
\* releases the lock that file holds.
DropLock(t) ==
  /\ lpc[t] = "held"
  /\ flock' = flock_after_drop(flock, lfile[t], t)
  /\ lpc' = [lpc EXCEPT ![t] = "idle"]
  /\ lret' = [lret EXCEPT ![t] = "none"]
  /\ sysErr' = [sysErr EXCEPT ![t] = "none"]
  /\ UNCHANGED <<raceVars, cloneVars, phase, disk, files, op, arg, ret, lfile, lblocking, watchVars>>

\* What a lock file can be when acquire_lock meets it.
LockFileEntries == {Absent, Dir, NoPerm, RegularFile(<<1>>)}

\* The directory was built over an empty root; the lock files are whatever
\* other processes left there since.
InitLock ==
  /\ phase = "ready"
  /\ disk \in {d \in [Paths -> LockFileEntries] : \A p \in DataPaths : d[p] = Absent}
  /\ files = EmptyMap
  /\ InitIdle

NextLock ==
  \/ \E t \in Threads, f \in LockPaths, b \in BOOLEAN : AcquireOpen(t, f, b)
  \/ \E t \in Threads, fault \in BOOLEAN : TryLockExclusive(t, fault)
  \/ \E t \in Threads : LockExclusiveOk(t)
  \/ \E t \in Threads : LockExclusiveErr(t)
  \/ \E t \in Threads : DropLock(t)

SpecLock == InitLock /\ [][NextLock]_vars

\* Every holder drops its handle in the end, and a thread waiting in
\* lock_exclusive gets the lock if it is free again and again.
LiveSpecLock ==
  /\ SpecLock
  /\ \A t \in Threads : WF_vars(DropLock(t)) /\ SF_vars(LockExclusiveOk(t))

\* --------------------------------------------------------------- watch
\* RoRamDirectoryInner::new: the watcher's target, dir.join(META_FILEPATH).
watcher_target_other == "test.txt"
watcher_target == META_FILEPATH

\* FileWatcher::watch(callback): the callback joins the registry and its
\* WatchHandle is returned.
FileWatcher_watch(reg, c) == reg \cup {c}

\* RoRamDirectory::watch -> RoRamDirectoryInner::watch -> watcher.watch
Watch(c) ==
  /\ phase = "ready" /\ c \notin callbacks
  /\ callbacks' = FileWatcher_watch(callbacks, c)
  /\ Call("watch", META_FILEPATH, OkUnit)
  /\ UNCHANGED <<raceVars, cloneVars, phase, disk, files, lockVars, dirty, round, tick, owed>>

\* The WatchHandle of c is dropped: c leaves the registry and the dispatch
\* in progress.
DropWatchHandle(c) ==
  /\ c \in callbacks
  /\ callbacks' = callbacks \ {c}
  /\ round' = round \ {c}
  /\ owed' = owed \ {c}
  /\ UNCHANGED <<raceVars, cloneVars, cacheVars, lockVars, dirty, tick>>

\* Another process replaces the content of a data file; the watcher notes a
\* change of its target.
EnvWrite(p, b) ==
  /\ phase = "ready"
  /\ p \in DataPaths /\ b \in Contents /\ disk[p] # RegularFile(b)
  /\ disk' = [disk EXCEPT ![p] = RegularFile(b)]
  /\ dirty' = (dirty \/ p = watcher_target)
  /\ owed' = IF p = META_FILEPATH THEN callbacks ELSE owed
  /\ Call("env", p, NoResult)
  /\ UNCHANGED <<raceVars, cloneVars, phase, files, lockVars, callbacks, round, tick>>

\* The watcher starts a dispatch: every callback registered now is to be
\* invoked.
Detect ==
  /\ dirty /\ round = {}
  /\ dirty' = FALSE
  /\ round' = callbacks
  /\ UNCHANGED <<raceVars, cloneVars, cacheVars, lockVars, callbacks, tick, owed>>

\* The dispatch invokes callback c.
Invoke(c) ==
  /\ c \in round
  /\ round' = round \ {c}
  /\ tick' = [tick EXCEPT ![c] = ~tick[c]]
  /\ owed' = owed \ {c}
  /\ UNCHANGED <<raceVars, cloneVars, cacheVars, lockVars, callbacks, dirty>>

InitWatch ==
  /\ phase = "ready"
  /\ disk = [p \in Paths |-> IF p \in DataPaths THEN RegularFile(NoBytes) ELSE Absent]
  /\ files = preload(disk)
  /\ InitIdle

NextWatch ==
  \/ \E c \in Callbacks : Watch(c)
  \/ \E c \in Callbacks : DropWatchHandle(c)
  \/ \E p \in DataPaths, b \in Contents : EnvWrite(p, b)
  \/ Detect
  \/ \E c \in Callbacks : Invoke(c)

SpecWatch == InitWatch /\ [][NextWatch]_vars

\* The watcher runs: a noted change is dispatched and a dispatch completes.
LiveSpecWatch ==
  /\ SpecWatch
  /\ WF_vars(Detect)
  /\ \A c \in Callbacks : WF_vars(Invoke(c))

\* --------------------------------------------------------------- clones
\* RoRamDirectory derives Clone and its only field is an Arc: the values of
\* RoRamDirectory are pointers (arc) to allocations (heap) that each hold
\* the files map of one RoRamDirectoryInner.
LiveHandleSet == {h \in Handles : arc[h] # NoAlloc}

\* Mutant: clone copies the RoRamDirectoryInner into a fresh allocation.
arc_clone_deep(ar, hp, h) ==
  LET fresh == CHOOSE b \in Allocs : \A g \in Handles : ar[g] # b
  IN <<fresh, [hp EXCEPT ![fresh] = hp[ar[h]]]>>
\* Arc::clone of the value h: <<the allocation the clone points to, the heap
\* afterwards>>.
arc_clone(ar, hp, h) == <<ar[h], hp>>

\* g = h.clone()
CloneDir(h, g) ==
  /\ arc[h] # NoAlloc /\ arc[g] = NoAlloc
  /\ arc' = [arc EXCEPT ![g] = arc_clone(arc, heap, h)[1]]
  /\ heap' = arc_clone(arc, heap, h)[2]
  /\ UNCHANGED <<raceVars, cacheVars, lockVars, watchVars>>

\* The value h is dropped while another one is alive.
DropDir(h) ==
  /\ arc[h] # NoAlloc /\ LiveHandleSet # {h}
  /\ arc' = [arc EXCEPT ![h] = NoAlloc]
  /\ UNCHANGED <<raceVars, cacheVars, lockVars, watchVars, heap>>

\* h.open_read(p)
OpenReadVia(h, p) ==
  /\ arc[h] # NoAlloc
  /\ heap' = [heap EXCEPT ![arc[h]] = inner_open_read(heap[arc[h]], disk, p)[2]]
  /\ Call("open_read", p, inner_open_read(heap[arc[h]], disk, p)[1])
  /\ UNCHANGED <<raceVars, phase, disk, files, lockVars, watchVars, arc>>

\* h.delete(p)
DeleteVia(h, p) ==
  /\ arc[h] # NoAlloc
  /\ heap' = [heap EXCEPT ![arc[h]] = inner_delete(heap[arc[h]], p)]
  /\ Call("delete", p, OkUnit)
  /\ UNCHANGED <<raceVars, phase, disk, files, lockVars, watchVars, arc>>

\* h.exists(p)
ExistsVia(h, p) ==
  /\ arc[h] # NoAlloc
  /\ Call("exists", p, OkBool(inner_exists(heap[arc[h]], p)))
  /\ UNCHANGED <<raceVars, phase, disk, files, lockVars, watchVars, cloneVars>>

\* After new: one value, its allocation holds the preloaded map.
InitClones ==
  /\ phase = "ready"
  /\ disk \in {d \in [Paths -> {Absent} \cup {RegularFile(b) : b \in Contents}] :
                 \A p \in LockPaths : d[p] = Absent}
  /\ files = EmptyMap
  /\ arc = [h \in Handles |-> IF h = 1 THEN 1 ELSE NoAlloc]
  /\ heap = [a \in Allocs |-> IF a = 1 THEN preload(disk) ELSE EmptyMap]
  /\ InitBase /\ RaceIdle

NextClones ==
  \/ \E h, g \in Handles : CloneDir(h, g)
  \/ \E h \in Handles : DropDir(h)
  \/ \E h \in Handles, p \in DataPaths : OpenReadVia(h, p)
  \/ \E h \in Handles, p \in DataPaths : DeleteVia(h, p)
  \/ \E h \in Handles, p \in DataPaths : ExistsVia(h, p)
  \/ \E p \in DataPaths, b \in Contents : EnvSet(p, RegularFile(b))
  \/ \E p \in DataPaths : EnvSet(p, Absent)

SpecClones == InitClones /\ [][NextClones]_vars

\* ------------------------------------- one directory, every kind of call
\* The calls that are not meant to change the cache, next to open_read, on
\* a data file and on a lock file.
FramePaths == {META_FILEPATH, META_LOCK}

InitFrame ==
  /\ phase = "ready"
  /\ disk \in {d \in [Paths -> {Absent} \cup {RegularFile(b) : b \in Contents}] :
                 \A p \in Paths \ {META_FILEPATH} : d[p] = Absent}
  /\ files = preload(disk)
  /\ InitIdle

NextFrame ==
  \/ \E p \in FramePaths : OpenRead(p)
  \/ \E p \in FramePaths : Exists(p)
  \/ \E p \in FramePaths : AtomicRead(p)
  \/ SyncDirectory
  \/ \E b \in Contents : EnvSet(META_FILEPATH, RegularFile(b))
  \/ \E t \in Threads : AcquireOpen(t, META_LOCK, FALSE)
  \/ \E t \in Threads : TryLockExclusive(t, FALSE)
  \/ \E t \in Threads : DropLock(t)
  \/ \E c \in Callbacks : Watch(c)

SpecFrame == InitFrame /\ [][NextFrame]_vars

\* ---------------------------------------- threads calling one directory
\* Each thread makes Directory calls on one path; a call is a sequence of
\* steps: it asks for the RwLock ("want"), gets its guard ("in"), runs the
\* body and drops the guard ("done").  atomic_read and acquire_lock drop the
\* guard at the end of the statement that joins the path ("joined").
RacePath == META_FILEPATH
RaceOps == {"open_read", "delete", "exists", "watch", "atomic_read"}

\* Mutant: every call takes the read guard.
lock_mode_shared(o) == "read"
\* self.inner.write() in open_read and delete, self.inner.read() elsewhere.
lock_mode(o) == IF o \in {"open_read", "delete"} THEN "write" ELSE "read"

\* RwLock: a writer excludes everybody, readers exclude writers.
can_lock(l, mode) ==
  IF mode = "write" THEN l.writer = NoOwner /\ l.readers = {}
  ELSE l.writer = NoOwner
locked(l, t, mode) ==
  IF mode = "write" THEN [l EXCEPT !.writer = t]
  ELSE [l EXCEPT !.readers = @ \cup {t}]
\* The guard of thread t is dropped.
unlocked(l, t) ==
  [writer |-> IF l.writer = t THEN NoOwner ELSE l.writer,
   readers |-> l.readers \ {t}]

\* Mutant: the guard lives as long as full_path.
guard_after_join_kept(l, t) == l
\* The temporary guard of self.inner.read().unwrap().root_path.join(..) is
\* dropped at the end of that statement.
guard_after_join(l, t) == unlocked(l, t)

\* The callback a thread registers with watch.
callback_of(t) == ((t - 1) % NumCallbacks) + 1

Begin(t, o) ==
  /\ phase = "ready" /\ tpc[t] = "idle"
  /\ o = "acquire_lock" => lpc[t] = "idle"
  /\ tpc' = [tpc EXCEPT ![t] = "want"]
  /\ top' = [top EXCEPT ![t] = o]
  /\ UNCHANGED <<cloneVars, cacheVars, lockVars, watchVars, tret, rw, loaders, files0>>

\* self.inner.read() / self.inner.write() returns the guard.
Enter(t) ==
  /\ tpc[t] = "want" /\ can_lock(rw, lock_mode(top[t]))
  /\ rw' = locked(rw, t, lock_mode(top[t]))
  /\ tpc' = [tpc EXCEPT ![t] = "in"]
  /\ UNCHANGED <<cloneVars, cacheVars, lockVars, watchVars, top, tret, loaders, files0>>

\* The body returns r and the guard is dropped.
Finish(t, r) ==
  /\ tret' = [tret EXCEPT ![t] = r]
  /\ rw' = unlocked(rw, t)
  /\ tpc' = [tpc EXCEPT ![t] = "done"]

\* Inner::open_read: the lookup and, on a miss, open_file.
OpenReadLoad(t) ==
  /\ tpc[t] = "in" /\ top[t] = "open_read"
  /\ tret' = [tret EXCEPT ![t] = inner_open_read(files, disk, RacePath)[1]]
  /\ loaders' = IF contains_key(files, RacePath) THEN loaders ELSE loaders \cup {t}
  /\ tpc' = [tpc EXCEPT ![t] = "loaded"]
  /\ UNCHANGED <<cloneVars, cacheVars, lockVars, watchVars, top, rw, files0>>

\* Inner::open_read: the insert of what was loaded, and the return.
OpenReadFinish(t) ==
  /\ tpc[t] = "loaded"
  /\ files' = IF t \in loaders /\ tret[t].kind = "Ok"
              THEN insert(files, RacePath, tret[t].bytes) ELSE files
  /\ Finish(t, tret[t])
  /\ UNCHANGED <<cloneVars, phase, disk, op, arg, ret, lockVars, watchVars, top,
                 loaders, files0>>

DeleteBody(t) ==
  /\ tpc[t] = "in" /\ top[t] = "delete"
  /\ files' = inner_delete(files, RacePath)
  /\ Finish(t, OkUnit)
  /\ UNCHANGED <<cloneVars, phase, disk, op, arg, ret, lockVars, watchVars, top,
                 loaders, files0>>

ExistsBody(t) ==
  /\ tpc[t] = "in" /\ top[t] = "exists"
  /\ Finish(t, OkBool(inner_exists(files, RacePath)))
  /\ UNCHANGED <<cloneVars, cacheVars, lockVars, watchVars, top, loaders, files0>>

WatchBody(t) ==
  /\ tpc[t] = "in" /\ top[t] = "watch"
  /\ callbacks' = FileWatcher_watch(callbacks, callback_of(t))
  /\ Finish(t, OkUnit)
  /\ UNCHANGED <<cloneVars, cacheVars, lockVars, dirty, round, tick, owed, top,
                 loaders, files0>>

\* atomic_read and acquire_lock: root_path.join(..) under the read guard.
JoinPath(t) ==
  /\ tpc[t] = "in" /\ top[t] \in {"atomic_read", "acquire_lock"}
  /\ rw' = guard_after_join(rw, t)
  /\ tpc' = [tpc EXCEPT ![t] = "joined"]
  /\ UNCHANGED <<cloneVars, cacheVars, lockVars, watchVars, top, tret, loaders, files0>>

\* atomic_read: File::open and read_to_end, outside the RwLock.
AtomicReadBody(t) ==
  /\ tpc[t] = "joined" /\ top[t] = "atomic_read"
  /\ tret' = [tret EXCEPT ![t] = atomic_read(disk, RacePath)]
  /\ tpc' = [tpc EXCEPT ![t] = "done"]
  /\ UNCHANGED <<cloneVars, cacheVars, lockVars, watchVars, top, rw, loaders, files0>>

\* The concurrent calls start on a cache that holds the path or not, with
\* the bytes the disk has or had.
InitRace ==
  /\ phase = "ready"
  /\ disk \in {d \in [Paths -> {Absent} \cup {RegularFile(b) : b \in Contents}] :
                 \A p \in Paths \ {RacePath} : d[p] = Absent}
  /\ files0 \in {EmptyMap} \cup {insert(EmptyMap, RacePath, b) : b \in Contents}
  /\ files = files0
  /\ tpc = [t \in Threads |-> "idle"]
  /\ top = [t \in Threads |-> "none"]
  /\ tret = [t \in Threads |-> NoResult]
  /\ rw = RwFree
  /\ loaders = {}
  /\ InitBase /\ CloneIdle

\* Every thread makes one call.
NextRace ==
  \/ \E t \in Threads, o \in RaceOps : Begin(t, o)
  \/ \E t \in Threads : Enter(t)
  \/ \E t \in Threads : OpenReadLoad(t)
  \/ \E t \in Threads : OpenReadFinish(t)
  \/ \E t \in Threads : DeleteBody(t)
  \/ \E t \in Threads : ExistsBody(t)
  \/ \E t \in Threads : WatchBody(t)
  \/ \E t \in Threads : JoinPath(t)
  \/ \E t \in Threads : AtomicReadBody(t)

SpecRace == InitRace /\ [][NextRace]_vars

\* ------------------------------- threads that also call acquire_lock
\* acquire_lock after the join: open the lock file, then wait for the lock
\* (LockExclusiveOk) with no guard of the RwLock.
AcquireJoined(t) ==
  /\ tpc[t] = "joined" /\ top[t] = "acquire_lock"
  /\ OpenLockFile(t, META_LOCK, TRUE)
  /\ tpc' = [tpc EXCEPT ![t] = "locking"]
  /\ UNCHANGED <<top, tret, rw, loaders, files0>>

\* The call of thread t has returned; t is free to make another one.  The
\* caller of watch lets go of the WatchHandle it got.
Return(t) ==
  /\ tpc[t] = "done" \/ (tpc[t] = "locking" /\ lpc[t] # "opened")
  /\ tpc' = [tpc EXCEPT ![t] = "idle"]
  /\ top' = [top EXCEPT ![t] = "none"]
  /\ tret' = [tret EXCEPT ![t] = NoResult]
  /\ loaders' = loaders \ {t}
  /\ callbacks' = IF top[t] = "watch" THEN callbacks \ {callback_of(t)} ELSE callbacks
  /\ UNCHANGED <<cloneVars, cacheVars, lockVars, dirty, round, tick, owed, rw, files0>>

InitBlocked ==
  /\ phase = "ready"
  /\ disk = [p \in Paths |-> IF p = RacePath THEN RegularFile(NoBytes) ELSE Absent]
  /\ files = preload(disk)
  /\ InitIdle

NextBlocked ==
  \/ NextRace
  \/ \E t \in Threads : Begin(t, "acquire_lock")
  \/ \E t \in Threads : AcquireJoined(t)
  \/ \E t \in Threads : LockExclusiveOk(t)
  \/ \E t \in Threads : DropLock(t)
  \/ \E t \in Threads : Return(t)

SpecBlocked == InitBlocked /\ [][NextBlocked]_vars

\* A thread that has a guard of the RwLock keeps running.
RunBody(t) ==
  \/ OpenReadLoad(t) \/ OpenReadFinish(t) \/ DeleteBody(t) \/ ExistsBody(t)
  \/ WatchBody(t) \/ JoinPath(t) \/ AtomicReadBody(t)

\* Threads inside a call keep running and read()/write() return when the
\* RwLock stays available; nothing makes a thread start a call, finish
\* acquire_lock or drop its DirectoryLock, and the RwLock promises no order
\* among the threads that want it.
LiveSpecBlocked ==
  /\ SpecBlocked
  /\ \A t \in Threads : WF_vars(RunBody(t)) /\ WF_vars(Enter(t))

\* ------------------------------------------------------------- claims
\* C1: right after a successful RoRamDirectory::new, every regular file
\* directly under the root is a key of the cache, exists(P) is true and
\* open_read(P) returns the bytes P has on disk at construction, served from
\* the cache.
C1_EagerPreload ==
  (op = "new" /\ ret.kind = "Ok") =>
    \A p \in Paths : is_file(disk[p]) =>
      /\ inner_exists(files, p)
      /\ inner_open_read(files, disk, p) = <<OkBytes(disk[p].bytes), files>>
\* A construction that met a file with content and skipped a non-file.
C1_Witness ==
  /\ op = "new" /\ ret.kind = "Ok"
  /\ disk[META_FILEPATH] = RegularFile(<<1>>)
  /\ disk["test.txt"] = Dir

\* What an open_read or exists step does for a path that is not cached.
C2_ExistsStep ==
  /\ (op' = "open_read" /\ ret'.kind = "Ok" /\ ~contains_key(files, arg')) =>
       /\ disk[arg'].kind = "file"
       /\ files' = insert(files, arg', disk[arg'].bytes)
       /\ ret' = OkBytes(disk[arg'].bytes)
  /\ (op' = "exists" /\ ~contains_key(files, arg')) => ret' = OkBool(FALSE)
\* C2: exists(P) answers cache membership and nothing else; a path on disk
\* and not in the cache has exists(P) false, and a successful open_read(P)
\* of it inserts the bytes read under P, returns them, and leaves exists(P)
\* true.
C2_ExistsIsCacheMembership ==
  /\ [](op = "exists" => ret = OkBool(arg \in DOMAIN files))
  /\ []((op = "open_read" /\ ret.kind = "Ok") =>
          (inner_exists(files, arg) /\ files[arg] = ret.bytes))
  /\ [][C2_ExistsStep]_vars
\* exists(P) has answered false for a file that is on disk and not cached.
C2_Witness ==
  /\ op = "exists" /\ ret = OkBool(FALSE)
  /\ disk[arg].kind = "file" /\ arg \notin DOMAIN files

\* C3 (the claim as stated): open_read of a path that is neither cached nor
\* on disk fails with FileDoesNotExist, not with the wrapped I/O error.
C3_OpenReadNotFound ==
  (op = "open_read" /\ arg \notin DOMAIN files /\ disk[arg].kind = "absent") =>
    (ret = FileDoesNotExist /\ ret # OpenReadError_wrap_io_error("NotFound"))

\* What a delete step does to the cache.
C4_DeleteStep ==
  op' = "delete" =>
    /\ ret' = OkUnit
    /\ ~inner_exists(files', arg')
    /\ (~contains_key(files, arg') => files' = files)
    /\ \A q \in Paths \ {arg'} :
         /\ contains_key(files', q) <=> contains_key(files, q)
         /\ contains_key(files, q) => files'[q] = files[q]
    /\ inner_delete(files', arg') = files'
\* C4: delete(P) returns Ok, leaves P out of the cache, leaves every other
\* entry as it was, changes nothing when P was not cached, and a second
\* delete(P) changes nothing more.
C4_Delete == [][C4_DeleteStep]_vars
\* A delete of a file that is on disk has left another entry in the cache.
C4_Witness ==
  /\ op = "delete" /\ ret = OkUnit
  /\ disk[arg].kind = "file" /\ arg \notin DOMAIN files
  /\ \E q \in DOMAIN files : files[q] # NoBytes

\* C5: atomic_read(P) returns the bytes P has on disk now, whatever the
\* cache holds for P, and FileDoesNotExist when P is not on disk, cached or
\* not.
C5_AtomicReadBypassesCache ==
  op = "atomic_read" =>
    /\ disk[arg].kind = "file" => ret = OkBytes(disk[arg].bytes)
    /\ disk[arg].kind = "absent" => ret = FileDoesNotExist
\* atomic_read has returned the disk bytes of a path cached with other bytes.
C5_Witness ==
  /\ op = "atomic_read" /\ contains_key(files, arg)
  /\ disk[arg].kind = "file" /\ files[arg] # disk[arg].bytes
  /\ ret = OkBytes(disk[arg].bytes)

\* Handles that are live for lock file f.
LiveHandles(f) == {t \in Threads : lpc[t] = "held" /\ lfile[t] = f}
\* Thread t leaves the non-blocking lock step in this step.
TryStep(t) == lpc[t] = "opened" /\ ~lblocking[t] /\ lpc'[t] # "opened"
\* Thread t leaves the blocking lock step in this step.
BlockingStep(t) == lpc[t] = "opened" /\ lblocking[t] /\ lpc'[t] # "opened"

\* What the non-blocking lock step returns, by who holds the lock.
C6_TryLockStep ==
  \A t \in Threads : TryStep(t) =>
    /\ LiveHandles(lfile[t]) # {} =>
         (lret'[t] = "LockBusy" /\ lpc'[t] = "idle" /\ flock' = flock)
    /\ (LiveHandles(lfile[t]) = {} /\ sysErr'[t] = "none") =>
         (lret'[t] = "Ok" /\ LiveHandles(lfile[t])' = {t})
\* C6: a non-blocking acquire_lock whose lock step runs while another handle
\* for the same lock file is live returns LockBusy; one whose lock step runs
\* while no handle is live (the winner of a race, or a call made after the
\* winner's handle was dropped) returns a handle, the step not failing for an
\* I/O reason; and two handles for one lock file are never live together.
C6_NonBlockingMutualExclusion ==
  /\ [](\A f \in LockPaths : Cardinality(LiveHandles(f)) <= 1)
  /\ [][C6_TryLockStep]_vars
\* Two non-blocking calls on one lock file: one holds, the other got LockBusy.
C6_Witness ==
  \E t, u \in Threads :
    /\ t # u /\ lfile[t] = lfile[u] /\ ~lblocking[t] /\ ~lblocking[u]
    /\ lpc[t] = "held" /\ lret[t] = "Ok"
    /\ lpc[u] = "idle" /\ lret[u] = "LockBusy" /\ sysErr[u] = "WouldBlock"

\* C7 (the claim as stated): a non-blocking acquire_lock returns LockBusy only
\* when the lock is held by another holder, and a lock step that fails for an
\* I/O reason returns the wrapped I/O error.
C7_LockBusyOnlyWhenHeld ==
  \A t \in Threads :
    /\ lret[t] = "LockBusy" => sysErr[t] = "WouldBlock"
    /\ (lpc[t] = "idle" /\ sysErr[t] = "Other") => lret[t] = "IoError"

\* What the blocking lock step returns, and when.
C8_BlockingStep ==
  \A t \in Threads : BlockingStep(t) =>
    /\ lret'[t] \in {"Ok", "IoError"}
    /\ lret'[t] = "Ok" => (LiveHandles(lfile[t]) = {} /\ LiveHandles(lfile[t])' = {t})
    /\ lret'[t] = "IoError" => (sysErr'[t] = "Interrupted" /\ flock' = flock)
\* C8: a blocking acquire_lock never returns LockBusy; it returns a handle
\* only in a step taken while no handle for its lock file is live; and, the
\* holders dropping their handles in the end, a caller in lock_exclusive gets
\* the lock in the end, unless lock_exclusive itself fails, which returns
\* the wrapped I/O error.
C8_BlockingAcquire ==
  /\ [](\A t \in Threads : lret[t] = "LockBusy" => ~lblocking[t])
  /\ [](\A f \in LockPaths : Cardinality(LiveHandles(f)) <= 1)
  /\ [][C8_BlockingStep]_vars
  /\ \A t \in Threads :
       (lpc[t] = "opened" /\ lblocking[t]) ~> (lpc[t] = "held" \/ lret[t] = "IoError")
\* A blocking caller waits in lock_exclusive while another thread holds the lock.
C8_Witness ==
  \E t, u \in Threads :
    /\ t # u /\ lfile[t] = lfile[u]
    /\ lpc[t] = "opened" /\ lblocking[t]
    /\ lpc[u] = "held"

\* C9 (the claim as stated): open_write and atomic_write return an error of
\* kind Unsupported to the caller.
C9_WritesReturnUnsupported ==
  op \in {"open_write", "atomic_write"} =>
    (ret.kind = "Err" /\ ret.err = "Unsupported")

\* A callback is invoked only while registered; a drop removes one callback.
C10_WatchStep ==
  /\ \A c \in Callbacks : tick'[c] # tick[c] => c \in callbacks
  /\ \A c \in Callbacks :
       (c \in callbacks /\ c \notin callbacks') =>
         (callbacks' = callbacks \ {c} /\ owed' = owed \ {c})
\* C10: a callback registered when the meta file's content changes is
\* invoked after that change unless its WatchHandle is dropped first; a
\* callback is invoked only while its WatchHandle is live; and dropping one
\* handle takes nothing from the other registrations.
C10_WatchDelivery ==
  /\ [][C10_WatchStep]_vars
  /\ [](owed \subseteq callbacks)
  /\ \A c \in Callbacks : (c \in owed) ~> (c \notin owed)
\* Both callbacks were invoked, one handle was dropped, and the meta file
\* has changed again with the other still registered.
C10_Witness ==
  \E c, d \in Callbacks :
    /\ c # d /\ c \notin callbacks /\ d \in callbacks
    /\ tick[c] /\ tick[d] /\ d \in owed
\* What a step may put into the cache, and what a failed open_read leaves.
C12_InsertStep ==
  /\ \A p \in Paths :
       (contains_key(files', p) /\ (~contains_key(files, p) \/ files'[p] # files[p])) =>
         disk[p] = RegularFile(files'[p])
  /\ (op' \in {"open_read", "get_file_handle"} /\ ret'.kind = "Err") =>
       (files' = files /\ ~contains_key(files', arg'))
\* C12: an entry enters the cache, or changes, only as the whole content its
\* file has on disk in the step that reads it; an open_read that fails
\* returns an error, adds no entry for its path and leaves the map as it was.
C12_NoPartialInsert == [][C12_InsertStep]_vars
\* open_read has failed on a read error while the cache holds another entry.
C12_Witness ==
  /\ op = "open_read" /\ ret = OpenReadError_wrap_io_error("IsADirectory")
  /\ ~contains_key(files, arg) /\ DOMAIN files # {}

\* What a step does to paths that are cached.
C16_SnapshotStep ==
  /\ (op' \in {"open_read", "get_file_handle"} /\ contains_key(files, arg')) =>
       (ret' = OkBytes(files[arg']) /\ files' = files)
  /\ \A p \in DOMAIN files :
       \/ op' = "delete" /\ arg' = p
       \/ contains_key(files', p) /\ files'[p] = files[p]
\* C16: once P is cached, open_read(P) returns the cached bytes and leaves
\* the map as it is, whatever the file on disk has become, and the entry of P
\* stays as inserted until delete(P).
C16_CachedSnapshot == [][C16_SnapshotStep]_vars
\* open_read has returned cached bytes that the disk no longer holds.
C16_Witness ==
  /\ op = "open_read" /\ contains_key(files, arg)
  /\ ret = OkBytes(files[arg])
  /\ disk[arg] # RegularFile(files[arg])

\* What delete leaves on disk and what the next reads of the path return.
C17_DeleteFrameStep ==
  op' = "delete" =>
    /\ disk' = disk
    /\ atomic_read(disk', arg') = atomic_read(disk, arg')
    /\ disk[arg'].kind = "file" =>
         /\ atomic_read(disk', arg') = OkBytes(disk[arg'].bytes)
         /\ inner_open_read(files', disk', arg') =
              <<OkBytes(disk[arg'].bytes), insert(files', arg', disk[arg'].bytes)>>
         /\ inner_exists(inner_open_read(files', disk', arg')[2], arg')
\* C17: delete(P) leaves the disk as it is; after it atomic_read(P) returns
\* what it returned before, and for a file on disk the next open_read(P)
\* reads the disk, returns the bytes there now and makes exists(P) true.
C17_DeleteLeavesDisk == [][C17_DeleteFrameStep]_vars
\* delete has removed the entry of a file whose disk content is not empty.
C17_Witness ==
  /\ op = "delete" /\ ~contains_key(files, arg)
  /\ disk[arg] = RegularFile(<<1>>)

\* What a drop and a failed acquire_lock do to the lock table.
C18_ReleaseStep ==
  \A t \in Threads :
    /\ (lpc[t] = "held" /\ lpc'[t] = "idle") =>
         (flock[lfile[t]] = t /\ flock' = [flock EXCEPT ![lfile[t]] = NoOwner])
    /\ (/\ lpc[t] # "held" /\ lpc'[t] = "idle"
        /\ <<lpc[t], lfile[t], lblocking[t], lret[t], sysErr[t]>> #
             <<lpc'[t], lfile'[t], lblocking'[t], lret'[t], sysErr'[t]>>
        /\ lret'[t] \in {"LockBusy", "IoError"}) =>
         (flock' = flock /\ \A f \in LockPaths : flock'[f] # t)
\* C18: dropping the handle releases the file lock; an acquire_lock that
\* returns LockBusy or the wrapped I/O error leaves its caller with no lock
\* and the lock table as it was; so a lock file is locked iff exactly one
\* handle for it is live, and that handle's thread owns the lock.
C18_LockTiedToHandle ==
  /\ [](\A f \in LockPaths :
          /\ flock[f] # NoOwner <=> LiveHandles(f) # {}
          /\ flock[f] # NoOwner => LiveHandles(f) = {flock[f]})
  /\ [][C18_ReleaseStep]_vars
\* A blocking acquire failed while another thread holds the same lock file.
C18_Witness ==
  \E t, u \in Threads :
    /\ t # u /\ lfile[t] = lfile[u]
    /\ lpc[t] = "idle" /\ lret[t] = "IoError" /\ sysErr[t] = "Interrupted"
    /\ lpc[u] = "held" /\ flock[lfile[u]] = u

\* What the open of acquire_lock does to the root directory.
C19_OpenStep ==
  /\ \A t \in Threads : (lpc[t] = "idle" /\ lpc'[t] = "opened") =>
       /\ disk[lfile'[t]].kind \in {"absent", "file"}
       /\ disk' = [disk EXCEPT ![lfile'[t]] =
                     IF disk[lfile'[t]] = Absent THEN RegularFile(NoBytes)
                     ELSE disk[lfile'[t]]]
  /\ disk' # disk => \E t \in Threads : lpc[t] = "idle" /\ lpc'[t] = "opened"
\* C19: the open of acquire_lock creates an absent lock file empty and
\* leaves an existing one with its content; it fails only on an entry that
\* cannot be opened for writing, never because the file is absent; and the
\* lock step on an unheld lock that meets no I/O failure returns the handle
\* either way.
C19_LockFileCreated ==
  /\ [][C19_OpenStep]_vars
  /\ [](\A t \in Threads :
          (lpc[t] = "idle" /\ sysErr[t] \in {"IsADirectory", "PermissionDenied"}) =>
            disk[lfile[t]].kind \in {"dir", "noperm"})
  /\ [][\A t \in Threads :
          (lpc[t] = "opened" /\ lpc'[t] # "opened" /\ flock[lfile[t]] = NoOwner
             /\ sysErr'[t] = "none") => lpc'[t] = "held"]_vars
\* One handle is live on a lock file that acquire_lock created, another on
\* a lock file that existed and kept its content.
C19_Witness ==
  \E t, u \in Threads :
    /\ lpc[t] = "held" /\ disk[lfile[t]] = RegularFile(NoBytes)
    /\ lpc[u] = "held" /\ disk[lfile[u]] = RegularFile(<<1>>)
\* What the values alive after a step see of the call the step made.
C11_SeenStep ==
  \A g \in Handles : arc'[g] # NoAlloc =>
    /\ op' = "delete" => ~inner_exists(heap'[arc'[g]], arg')
    /\ (op' = "open_read" /\ ret'.kind = "Ok") =>
         /\ inner_exists(heap'[arc'[g]], arg')
         /\ inner_open_read(heap'[arc'[g]], disk', arg')[1] = ret'
    /\ op' = "exists" => OkBool(inner_exists(heap'[arc'[g]], arg')) = ret'
\* C11: every clone points to the allocation of the value it was cloned
\* from, so all live values give the same exists and open_read answers for
\* every path, and a delete or a lazy insert made through one value is what
\* every other value sees afterwards.
C11_ClonesShareCache ==
  /\ [](\A h, g \in LiveHandleSet :
          /\ arc[h] = arc[g]
          /\ \A p \in DataPaths :
               /\ inner_exists(heap[arc[h]], p) = inner_exists(heap[arc[g]], p)
               /\ inner_open_read(heap[arc[h]], disk, p)[1] =
                    inner_open_read(heap[arc[g]], disk, p)[1])
  /\ [][C11_SeenStep]_vars
\* Two values are alive and both miss a file of the disk that a delete
\* through one of them removed.
C11_Witness ==
  /\ LiveHandleSet = {1, 2}
  /\ op = "delete" /\ disk[arg].kind = "file"
  /\ \A g \in LiveHandleSet : ~contains_key(heap[arc[g]], arg)
\* What the calls other than open_read and delete leave of the cache.
C20_FrameStep ==
  /\ op' \in {"exists", "atomic_read", "sync_directory", "watch"} => files' = files
  /\ (lockVars' # lockVars \/ watchVars' # watchVars) => files' = files
  /\ \A f \in LockPaths :
       (~contains_key(files, f) /\ contains_key(files', f)) =>
         (op' \in {"open_read", "get_file_handle"} /\ arg' = f)
\* C20: exists, atomic_read, sync_directory, acquire_lock and watch leave
\* the cache map as it is; atomic_read neither inserts nor refreshes an
\* entry; a lock file becomes a key of the cache only by an open_read of it,
\* not by the acquire_lock that created it.
C20_ReadOnlyCalls == [][C20_FrameStep]_vars
\* atomic_read has returned the content of the lock file that acquire_lock
\* created and a thread holds, and the cache has no entry for it.
C20_Witness ==
  /\ op = "atomic_read" /\ arg = META_LOCK /\ ret = OkBytes(NoBytes)
  /\ \E t \in Threads : lpc[t] = "held" /\ lfile[t] = META_LOCK
  /\ disk[META_LOCK] = RegularFile(NoBytes)
  /\ ~contains_key(files, META_LOCK)
\* The threads whose call has the guard of the RwLock, and the calls made.
Inside(t) == tpc[t] \in {"in", "loaded"}
Made(o) == {t \in Threads : top[t] = o}
Returned(o) == {t \in Made(o) : tpc[t] = "done"}

\* C14: when delete(P) and open_read(P) race on a path that is cached and
\* is a file on disk, and no other call changes the cache, delete returns
\* Ok and open_read returns Ok with either the bytes cached before, the
\* cache ending without P, or the bytes of the disk, read by this call, the
\* cache ending with P holding them.
C14_DeleteOpenReadRace ==
  ( /\ \A t \in Threads : tpc[t] = "done"
    /\ Cardinality(Made("delete")) = 1 /\ Cardinality(Made("open_read")) = 1
    /\ contains_key(files0, RacePath) /\ disk[RacePath].kind = "file" ) =>
  \A a \in Made("delete"), b \in Made("open_read") :
    /\ tret[a] = OkUnit
    /\ \/ /\ tret[b] = OkBytes(files0[RacePath])
          /\ b \notin loaders
          /\ ~contains_key(files, RacePath)
       \/ /\ tret[b] = OkBytes(disk[RacePath].bytes)
          /\ b \in loaders
          /\ files = insert(EmptyMap, RacePath, disk[RacePath].bytes)
\* delete ran first: open_read read the disk, whose bytes are not the ones
\* that were cached, and left them in the cache.
C14_Witness ==
  /\ \A t \in Threads : tpc[t] = "done"
  /\ Cardinality(Made("delete")) = 1 /\ Cardinality(Made("open_read")) = 1
  /\ contains_key(files0, RacePath) /\ disk[RacePath].kind = "file"
  /\ files0[RacePath] # disk[RacePath].bytes
  /\ Made("open_read") \subseteq loaders
  /\ files = insert(EmptyMap, RacePath, disk[RacePath].bytes)

\* C15: a thread inside open_read (lookup, load and insert) or delete is the
\* writer of the RwLock with no reader, and no other call is inside the
\* lock; so open_read calls racing on an uncached file, with no delete,
\* read the disk once in all and all return the bytes of the disk.
C15_ExclusiveMutation ==
  /\ \A t \in Threads : (Inside(t) /\ top[t] \in {"open_read", "delete"}) =>
       /\ rw = [writer |-> t, readers |-> {}]
       /\ \A u \in Threads \ {t} : ~Inside(u)
  /\ ( /\ Made("delete") = {}
       /\ ~contains_key(files0, RacePath) /\ disk[RacePath].kind = "file" ) =>
       /\ Cardinality(loaders) <= 1
       /\ Returned("open_read") # {} => Cardinality(loaders) = 1
       /\ \A t \in Returned("open_read") : tret[t] = OkBytes(disk[RacePath].bytes)
\* Two open_read calls on an uncached file have returned and one of them
\* read the disk.
C15_Witness ==
  /\ Cardinality(Returned("open_read")) >= 2 /\ Made("delete") = {}
  /\ ~contains_key(files0, RacePath) /\ disk[RacePath].kind = "file"
  /\ Cardinality(loaders) = 1
\* Thread t waits in lock_exclusive for a lock file another thread holds.
Blocked(t) ==
  /\ tpc[t] = "locking" /\ lpc[t] = "opened"
  /\ flock[lfile[t]] \notin {NoOwner, t}
\* C13: acquire_lock has dropped its read guard of the RwLock before it
\* opens and locks the lock file, so a thread that waits for the file lock
\* holds no guard; however long that wait lasts, an open_read, exists,
\* delete, atomic_read or watch of any thread, the holder of the file lock
\* included, that wants the RwLock gets it unless other calls keep taking
\* it, and a call that got the RwLock returns.
C13_NoLockCoupling ==
  /\ [](\A t \in Threads : tpc[t] \in {"joined", "locking"} =>
          (rw.writer # t /\ t \notin rw.readers))
  /\ \A u \in Threads :
       (tpc[u] \in {"want", "in", "loaded", "joined"} /\ top[u] \in RaceOps) ~>
         \/ tpc[u] = "done"
         \/ tpc[u] = "want" /\ \E v \in Threads \ {u} : Inside(v)
\* A thread waits for the file lock while its holder is inside delete.
C13_Witness ==
  \E t, u \in Threads :
    /\ Blocked(t) /\ flock[META_LOCK] = u
    /\ Inside(u) /\ top[u] = "delete"
====
